---- MODULE Spec2Model ----
(***************************************************************************)
(* Zerodha mock MCP server: the session/account store, the shared market   *)
(* simulation, the tool dispatcher and the request handler.                *)
(*                                                                         *)
(* The repository holds two programs built around the same handler:        *)
(*   - the market-aware dispatcher (src/unnamed/part_000): live market,    *)
(*     funds/holdings validation, weighted average cost;                   *)
(*   - the basic dispatcher (src/api/mcp.js): no market, BUY executes      *)
(*     unconditionally, SELL is only recorded.                             *)
(* `variant` says which of the two the process runs.                       *)
(*                                                                         *)
(* Money is counted in paise (1/100 rupee), so every amount the code       *)
(* rounds with toFixed(2) is an integer here.  A JavaScript number that    *)
(* can stop being finite (balance, cost price, pnl) is a tagged record,    *)
(* see Num / NaN / Inf.                                                    *)
(***************************************************************************)
EXTENDS Integers, Sequences, FiniteSets, TLC

VARIABLES
    variant,      \* "market" (src/unnamed/part_000) or "basic" (src/api/mcp.js)
    sessions,     \* the Map `sessions`: session id -> account
    marketState,  \* the object `marketState`: stocks, lastUpdate (news is constant)
    now,          \* the wall clock read by Date.now(), in ms since module load
    req,          \* the request the handler served last (`client` is the connection
                  \* it came over, which the handler never reads)
    res           \* the response it sent: HTTP status and JSON body

vars == <<variant, sessions, marketState, now, req, res>>

-----------------------------------------------------------------------------
(* Bounds of the model *)

MaxOrders == 2        \* place-order is cut off once the sessions hold this many orders
MaxTicks == 1         \* the clock stops after MaxTicks refresh periods
MaxFewOrders == 1     \* the same for the specification of the whole handler
MaxBuys == 4          \* SpecAvg: length of a BUY sequence
MaxDrift == 92        \* SpecDrift: refresh periods the clock runs for

-----------------------------------------------------------------------------
(* JavaScript numbers that may be NaN or infinite *)

Num(n) == [k |-> "num", v |-> n]
NaN == [k |-> "NaN", v |-> 0]
Inf(sgn) == [k |-> "Infinity", v |-> sgn]
Undefined == [k |-> "undefined", v |-> 0]

Sign(n) == IF n > 0 THEN 1 ELSE IF n < 0 THEN -1 ELSE 0
Abs(n) == IF n < 0 THEN -n ELSE n

\* ToNumber: undefined becomes NaN
ToNumber(x) == IF x.k = "undefined" THEN NaN ELSE x

\* q * x for an integer q
JsMulInt(q, x) ==
    CASE x.k = "num" -> Num(q * x.v)
      [] x.k \in {"NaN", "undefined"} -> NaN
      [] OTHER -> IF q = 0 THEN NaN ELSE Inf(Sign(q) * x.v)

JsNeg(x) ==
    CASE x.k = "num" -> Num(-x.v)
      [] x.k = "NaN" -> NaN
      [] OTHER -> Inf(-x.v)

JsAdd(x, y) ==
    CASE x.k = "NaN" \/ y.k = "NaN" -> NaN
      [] x.k = "num" /\ y.k = "num" -> Num(x.v + y.v)
      [] x.k = "num" -> y
      [] y.k = "num" -> x
      [] OTHER -> IF x.v = y.v THEN x ELSE NaN

JsSub(x, y) == JsAdd(x, JsNeg(y))

\* x < y; every comparison with NaN is false
JsLt(x, y) ==
    CASE x.k = "NaN" \/ y.k = "NaN" -> FALSE
      [] x.k = "num" /\ y.k = "num" -> x.v < y.v
      [] x.k = "num" -> y.v = 1
      [] y.k = "num" -> x.v = -1
      [] OTHER -> x.v < y.v

\* x || y on numbers: 0, NaN and undefined are falsy
JsOr(x, y) == IF x.k \in {"NaN", "undefined"} \/ (x.k = "num" /\ x.v = 0) THEN y ELSE x

\* parseFloat((t / q).toFixed(2)) for t in paise and an integer q: the quotient
\* rounded to whole paise, half away from zero.  On an exact half the double that
\* stands for t/q may lie on either side, so `tieUp` decides.
ToFixed2Div(t, q, tieUp) ==
    LET a == Abs(t)
        b == Abs(q)
        fl == a \div b
        r2 == 2 * (a % b)
        mag == IF r2 > b \/ (r2 = b /\ tieUp) THEN fl + 1 ELSE fl
    IN  Num(Sign(t) * Sign(q) * mag)

\* parseFloat((x / q).toFixed(2)) for any x
JsDivFixed2(x, q, tieUp) ==
    CASE x.k = "NaN" -> NaN
      [] x.k = "Infinity" -> Inf(IF q < 0 THEN -x.v ELSE x.v)
      [] q = 0 -> IF x.v = 0 THEN NaN ELSE Inf(Sign(x.v))
      [] OTHER -> ToFixed2Div(x.v, q, tieUp)

-----------------------------------------------------------------------------
(* Strings *)

\* String.prototype.toUpperCase on the symbols the model sends
ToUpperCase(s) ==
    CASE s = "tcs" -> "TCS"
      [] s = "wipro" -> "WIPRO"
      [] OTHER -> s

\* parseInt of a number given in tenths: the digits before the decimal point
ParseInt(q10) == Sign(q10) * (Abs(q10) \div 10)

-----------------------------------------------------------------------------
(* Account store *)

DefaultSession == "demo-session"

InitialBalance == 10000000   \* 100000.00

CreateAccount ==
    [ balance |-> Num(InitialBalance),
      holdings |-> << [symbol |-> "TCS", qty |-> 10, price |-> Num(340000)],
                      [symbol |-> "RELIANCE", qty |-> 5, price |-> Num(280000)],
                      [symbol |-> "INFY", qty |-> 15, price |-> Num(150000)] >>,
      orders |-> << >> ]

\* GetSession without the default id: a missing id is a key like any other
GetSessionAsGiven(sess, id0) ==
    [ id |-> id0,
      sessions |-> IF id0 \in DOMAIN sess THEN sess ELSE (id0 :> CreateAccount) @@ sess ]

\* `if (!id) id = 'demo-session'`; the empty string stands for a missing id too
GetSession(sess, id0) ==
    LET id == IF id0 = "" THEN DefaultSession ELSE id0
    IN  [ id |-> id,
          sessions |-> IF id \in DOMAIN sess THEN sess ELSE (id :> CreateAccount) @@ sess ]

\* SetSession on a store whose ids all stand for one account object
SetSessionAliased(sess, id, account) == [x \in DOMAIN sess \cup {id} |-> account]

SetSession(sess, id, account) == [x \in DOMAIN sess \cup {id} |-> IF x = id THEN account ELSE sess[x]]

\* holdings.find(h => h.symbol === symbol): the index of the first match, 0 if none
FindHolding(holdings, symbol) ==
    IF \E i \in 1..Len(holdings) : holdings[i].symbol = symbol
    THEN CHOOSE i \in 1..Len(holdings) :
            /\ holdings[i].symbol = symbol
            /\ \A j \in 1..(i - 1) : holdings[j].symbol # symbol
    ELSE 0

\* holdings.filter(h => h.symbol !== symbol)
FilterOut(holdings, symbol) == SelectSeq(holdings, LAMBDA h : h.symbol # symbol)

-----------------------------------------------------------------------------
(* Market model *)

StockSymbols == {"TCS", "RELIANCE", "INFY", "HDFC", "WIPRO", "TATAMOTORS"}

\* insertion order of marketState.stocks
StockOrder == <<"TCS", "RELIANCE", "INFY", "HDFC", "WIPRO", "TATAMOTORS">>

InitialStocks ==
    [s \in StockSymbols |->
        CASE s = "TCS" -> [price |-> 345000, trend |-> "UP"]
          [] s = "RELIANCE" -> [price |-> 285000, trend |-> "FLAT"]
          [] s = "INFY" -> [price |-> 152000, trend |-> "DOWN"]
          [] s = "HDFC" -> [price |-> 168000, trend |-> "UP"]
          [] s = "WIPRO" -> [price |-> 46000, trend |-> "DOWN"]
          [] OTHER -> [price |-> 98000, trend |-> "UP"]]

RefreshMs == 5000

\* parseFloat(x.toFixed(2)) for x in tenths of a paise: half away from zero
RoundTenths(v) == Sign(v) * ((Abs(v) + 5) \div 10)

\* One stock's step.  `move` is (Math.random() - 0.5) * 10 in tenths of a paise,
\* -5000 <= move < 5000; the new price is price + move rounded to whole paise.
MoveStock(stock, move) ==
    [ price |-> RoundTenths(10 * stock.price + move),
      trend |-> IF move > 0 THEN "UP" ELSE "DOWN" ]

\* UpdateMarket that refreshes from 5000 ms on
UpdateMarketAtThreshold(mkt, t, moves) ==
    IF t - mkt.lastUpdate >= RefreshMs
    THEN [ stocks |-> [s \in StockSymbols |-> MoveStock(mkt.stocks[s], moves[s])],
           lastUpdate |-> t ]
    ELSE mkt

\* updateMarket(): one step for every stock once more than 5000 ms have passed
UpdateMarket(mkt, t, moves) ==
    IF t - mkt.lastUpdate > RefreshMs
    THEN [ stocks |-> [s \in StockSymbols |-> MoveStock(mkt.stocks[s], moves[s])],
           lastUpdate |-> t ]
    ELSE mkt

-----------------------------------------------------------------------------
(* Tool dispatcher of the market-aware program (src/unnamed/part_000) *)

\* what executeTool hands back: the stores after the call and either the value
\* it returned or the message of the Error it threw
Return(sess, mkt, result) == [sessions |-> sess, market |-> mkt, threw |-> FALSE, result |-> result]
Throw(sess, mkt, message) == [sessions |-> sess, market |-> mkt, threw |-> TRUE, result |-> [message |-> message]]

\* params.side || params.type
OrderSide(params) == IF params.side # "" THEN params.side ELSE params.type

\* marketState.stocks[symbol]?.price || params.price || 0, a finite number
MarketPrice(mkt, symbol) ==
    IF symbol \in DOMAIN mkt.stocks THEN Num(mkt.stocks[symbol].price) ELSE Undefined

OrderPrice(mkt, symbol, params) == JsOr(JsOr(MarketPrice(mkt, symbol), params.price), Num(0)).v

Rejected(account, reason) ==
    [account |-> account, accepted |-> FALSE, result |-> [status |-> "REJECTED", reason |-> reason]]

Accepted(account) == [account |-> account, accepted |-> TRUE, result |-> [status |-> "COMPLETE"]]

\* existing.qty += qty; existing.price = parseFloat((totalCost / existing.qty).toFixed(2))
AveragedHolding(existing, qty, orderValue, tieUp) ==
    [existing EXCEPT
        !.qty = existing.qty + qty,
        !.price = JsDivFixed2(JsAdd(JsMulInt(existing.qty, existing.price), orderValue),
                              existing.qty + qty, tieUp)]

\* BoughtHoldings that pushes a new entry whether or not the symbol is held
BoughtHoldingsPushed(holdings, i, symbol, qty, price, tieUp) ==
    Append(holdings, [symbol |-> symbol, qty |-> qty, price |-> Num(price)])

\* the holdings after a BUY; i is the index find() gave, 0 for none
BoughtHoldings(holdings, i, symbol, qty, price, tieUp) ==
    IF i # 0
    THEN [holdings EXCEPT ![i] = AveragedHolding(holdings[i], qty, Num(qty * price), tieUp)]
    ELSE Append(holdings, [symbol |-> symbol, qty |-> qty, price |-> Num(price)])

\* BuyBranch with the debit made ahead of the funds check
BuyBranchDebitFirst(account, symbol, qty, price, tieUp) ==
    IF JsLt(account.balance, Num(qty * price))
    THEN Rejected([account EXCEPT !.balance = JsSub(account.balance, Num(qty * price))],
                  "Insufficient funds")
    ELSE Accepted([account EXCEPT
            !.balance = JsSub(account.balance, Num(qty * price)),
            !.holdings = BoughtHoldings(account.holdings, FindHolding(account.holdings, symbol),
                                        symbol, qty, price, tieUp)])

\* BuyBranch without the funds check
BuyBranchUnchecked(account, symbol, qty, price, tieUp) ==
    Accepted([account EXCEPT
        !.balance = JsSub(account.balance, Num(qty * price)),
        !.holdings = BoughtHoldings(account.holdings, FindHolding(account.holdings, symbol),
                                    symbol, qty, price, tieUp)])

\* the BUY branch: funds check, debit, then the holding
BuyBranch(account, symbol, qty, price, tieUp) ==
    IF JsLt(account.balance, Num(qty * price))
    THEN Rejected(account, "Insufficient funds")
    ELSE Accepted([account EXCEPT
            !.balance = JsSub(account.balance, Num(qty * price)),
            !.holdings = BoughtHoldings(account.holdings, FindHolding(account.holdings, symbol),
                                        symbol, qty, price, tieUp)])

\* SoldHoldings that marks what is left to the seeded price of the first lot
SoldHoldingsRepriced(holdings, i, symbol, qty) ==
    IF holdings[i].qty - qty = 0
    THEN FilterOut([holdings EXCEPT ![i].qty = 0], symbol)
    ELSE [holdings EXCEPT ![i].qty = @ - qty, ![i].price = Num(340000)]

\* existing.qty -= qty, and the symbol filtered out when nothing is left
SoldHoldings(holdings, i, symbol, qty) ==
    IF holdings[i].qty - qty = 0
    THEN FilterOut([holdings EXCEPT ![i].qty = 0], symbol)
    ELSE [holdings EXCEPT ![i].qty = @ - qty]

\* CannotSell that only looks for the holding, not at its quantity
CannotSellUnheld(holdings, i, qty) == i = 0

\* is the SELL refused: `!existing || existing.qty < qty`
CannotSell(holdings, i, qty) == i = 0 \/ holdings[i].qty < qty

\* the SELL branch: holdings check, credit, decrement, removal at zero
SellBranch(account, symbol, qty, price) ==
    IF CannotSell(account.holdings, FindHolding(account.holdings, symbol), qty)
    THEN Rejected(account, "Insufficient holdings")
    ELSE Accepted([account EXCEPT
            !.balance = JsAdd(account.balance, Num(qty * price)),
            !.holdings = SoldHoldings(account.holdings, FindHolding(account.holdings, symbol),
                                      symbol, qty)])

\* the if / else if on side; any other side trades nothing and is not refused
Trade(account, symbol, qty, side, price, tieUp) ==
    CASE side = "BUY" -> BuyBranch(account, symbol, qty, price, tieUp)
      [] side = "SELL" -> SellBranch(account, symbol, qty, price)
      [] OTHER -> Accepted(account)

\* Recorded that keeps the latest order only
RecordedLatest(traded, id, symbol, qty, side, price, t) ==
    IF ~traded.accepted
    THEN traded
    ELSE [ account |-> [traded.account EXCEPT
                          !.orders = << [ id |-> id, symbol |-> symbol, qty |-> qty,
                                          side |-> side, price |-> Num(price), time |-> t ] >>],
           accepted |-> TRUE,
           result |-> [ status |-> "COMPLETE", order_id |-> id, executed_price |-> price,
                        message |-> <<side, qty, symbol, price>> ] ]

\* account.orders.push(...) and the confirmation, unless the trade was refused
Recorded(traded, id, symbol, qty, side, price, t) ==
    IF ~traded.accepted
    THEN traded
    ELSE [ account |-> [traded.account EXCEPT
                          !.orders = Append(@, [ id |-> id, symbol |-> symbol, qty |-> qty,
                                                 side |-> side, price |-> Num(price), time |-> t ])],
           accepted |-> TRUE,
           result |-> [ status |-> "COMPLETE", order_id |-> id, executed_price |-> price,
                        message |-> <<side, qty, symbol, price>> ] ]

\* PlaceOrder without the symbol check
PlaceOrderAnySymbol(account, mkt, params, t, rnd) ==
    Recorded(Trade(account, ToUpperCase(params.symbol), ParseInt(params.qty),
                   OrderSide(params), OrderPrice(mkt, ToUpperCase(params.symbol), params),
                   rnd.tieUp),
             rnd.id, ToUpperCase(params.symbol), ParseInt(params.qty), OrderSide(params),
             OrderPrice(mkt, ToUpperCase(params.symbol), params), t)

\* case 'place-order'
PlaceOrder(account, mkt, params, t, rnd) ==
    IF ToUpperCase(params.symbol) \notin DOMAIN mkt.stocks
    THEN Rejected(account, "Symbol not found")
    ELSE Recorded(Trade(account, ToUpperCase(params.symbol), ParseInt(params.qty),
                        OrderSide(params), OrderPrice(mkt, ToUpperCase(params.symbol), params),
                        rnd.tieUp),
                  rnd.id, ToUpperCase(params.symbol), ParseInt(params.qty), OrderSide(params),
                  OrderPrice(mkt, ToUpperCase(params.symbol), params), t)

\* case 'get-holdings': each holding with the live price and the unrealised P&L
HoldingWithVal(mkt, h) ==
    [ symbol |-> h.symbol, qty |-> h.qty, price |-> h.price,
      current_price |-> JsOr(MarketPrice(mkt, h.symbol), h.price),
      pnl |-> JsMulInt(h.qty, JsSub(JsOr(MarketPrice(mkt, h.symbol), h.price), h.price)) ]

GetHoldings(account, mkt) ==
    [holdings |-> [i \in 1..Len(account.holdings) |-> HoldingWithVal(mkt, account.holdings[i])]]

\* parseFloat(x.toFixed(2)) for x in thousandths of a paise
RoundMilli(v) == Sign(v) * ((Abs(v) + 500) \div 1000)

\* case 'get-quote' for a known stock
GetQuote(symbol, stock) ==
    [ symbol |-> symbol, price |-> stock.price, trend |-> stock.trend,
      depth |-> [ buy |-> [price |-> RoundMilli(stock.price * 999), qty |-> 100],
                  sell |-> [price |-> RoundMilli(stock.price * 1001), qty |-> 150] ] ]

News ==
    << [headline |-> "TCS bags $1B deal from UK insurer", sentiment |-> "POSITIVE", symbol |-> "TCS"],
       [headline |-> "Reliance expected to post weak quarterly results", sentiment |-> "NEGATIVE", symbol |-> "RELIANCE"],
       [headline |-> "Tech sector rally continues as Nasdaq surges", sentiment |-> "POSITIVE", symbol |-> "INFY"],
       [headline |-> "Auto sales drop 5% in March", sentiment |-> "NEGATIVE", symbol |-> "TATAMOTORS"] >>

\* case 'get-market-status': the stocks sorted by price, highest first (the sort is
\* stable, so equal prices keep their insertion order); u is Math.random() in tenths
GetMarketStatus(mkt, u) ==
    LET pos(s) == CHOOSE i \in 1..Len(StockOrder) : StockOrder[i] = s
        before(a, b) == \/ mkt.stocks[a].price > mkt.stocks[b].price
                        \/ mkt.stocks[a].price = mkt.stocks[b].price /\ pos(a) < pos(b)
        first == CHOOSE a \in StockSymbols : \A b \in StockSymbols \ {a} : before(a, b)
        last == CHOOSE a \in StockSymbols : \A b \in StockSymbols \ {a} : before(b, a)
    IN  [ status |-> "OPEN", index_level |-> 1850000 + u * 1000,
          top_gainer |-> first, top_loser |-> last, active_symbols |-> StockOrder ]

\* case 'get-history': `days` synthetic candles walking back from the current price.
\* Prices inside the walk are in thousandths of a paise; draws[j] holds the four
\* Math.random() values of a day in tenths, day i using draws[(i % Len(draws)) + 1].
RECURSIVE HistoryFrom(_, _, _, _)
HistoryFrom(i, days, currentClose, draws) ==
    IF i >= days THEN << >>
    ELSE LET d == draws[(i % Len(draws)) + 1]
             volatility == currentClose \div 50
             change == ((d.change - 5) * volatility) \div 10
             prevClose == currentClose - change
             hi == (IF prevClose > currentClose THEN prevClose ELSE currentClose)
                     + (d.high * volatility) \div 20
             lo == (IF prevClose < currentClose THEN prevClose ELSE currentClose)
                     - (d.low * volatility) \div 20
             day == [ date |-> 0 - i, open |-> RoundMilli(prevClose), high |-> RoundMilli(hi),
                      low |-> RoundMilli(lo), close |-> RoundMilli(currentClose),
                      volume |-> d.volume * 100000 + 50000 ]
         IN  <<day>> \o HistoryFrom(i + 1, days, prevClose, draws)

Reverse(seq) == [i \in 1..Len(seq) |-> seq[Len(seq) + 1 - i]]

DefaultDays == 30

\* GetHistory that returns the candles as generated, newest first
GetHistoryNewestFirst(mkt, histSymbol, params, draws) ==
    [ symbol |-> histSymbol,
      history |-> HistoryFrom(0, JsOr(params.days, Num(DefaultDays)).v,
                              mkt.stocks[histSymbol].price * 1000, draws) ]

GetHistory(mkt, histSymbol, params, draws) ==
    [ symbol |-> histSymbol,
      history |-> Reverse(HistoryFrom(0, JsOr(params.days, Num(DefaultDays)).v,
                                      mkt.stocks[histSymbol].price * 1000, draws)) ]

\* ResetSession that builds the account and does not store it
ResetSessionUnstored(got) == got.sessions

\* sessions.set(id, createAccount())
ResetSession(got) == SetSession(got.sessions, got.id, CreateAccount)

\* the account written back (it was mutated in place) and the value returned
Placed(got, mkt, placed) ==
    Return(SetSession(got.sessions, got.id, placed.account), mkt, placed.result)

TypeErrorMessage == <<"Cannot read properties of undefined (reading 'toUpperCase')">>

\* the switch of executeTool; `got` is what getSession returned
Switch(got, mkt, t, toolName, params, rnd) ==
    CASE toolName = "init" ->
           Return(ResetSession(got), mkt,
                  [ message |-> "Account reset successful. Market is open.",
                    balance |-> 10000000, market_status |-> "OPEN" ])
      [] toolName = "get-account" ->
           Return(got.sessions, mkt, [ id |-> got.id, balance |-> got.sessions[got.id].balance,
                                       currency |-> "INR", status |-> "ACTIVE" ])
      [] toolName = "get-holdings" ->
           Return(got.sessions, mkt, GetHoldings(got.sessions[got.id], mkt))
      [] toolName = "get-orders" ->
           Return(got.sessions, mkt, [orders |-> got.sessions[got.id].orders])
      [] toolName = "get-history" ->
           IF params.symbol = "" THEN Throw(got.sessions, mkt, TypeErrorMessage)
           ELSE IF ToUpperCase(params.symbol) \notin DOMAIN mkt.stocks
           THEN Return(got.sessions, mkt, [error |-> "Symbol not found"])
           ELSE Return(got.sessions, mkt, GetHistory(mkt, ToUpperCase(params.symbol), params, rnd.draws))
      [] toolName = "place-order" ->
           IF params.symbol = "" THEN Throw(got.sessions, mkt, TypeErrorMessage)
           ELSE Placed(got, mkt, PlaceOrder(got.sessions[got.id], mkt, params, t, rnd))
      [] toolName = "get-quote" ->
           IF params.symbol = "" THEN Throw(got.sessions, mkt, TypeErrorMessage)
           ELSE IF ToUpperCase(params.symbol) \notin DOMAIN mkt.stocks
           THEN Return(got.sessions, mkt, [error |-> "Symbol not found"])
           ELSE Return(got.sessions, mkt,
                       GetQuote(ToUpperCase(params.symbol), mkt.stocks[ToUpperCase(params.symbol)]))
      [] toolName = "get-market-news" ->
           Return(got.sessions, mkt, [headlines |-> News, sentiment |-> "MIXED"])
      [] toolName = "get-market-status" -> Return(got.sessions, mkt, GetMarketStatus(mkt, rnd.u))
      [] OTHER -> Throw(got.sessions, mkt, <<"Unknown tool: ", toolName>>)

\* executeTool of src/unnamed/part_000: refresh, session, switch; rnd holds the
\* random draws of the call
ExecuteTool(sess, mkt, t, toolName, params, sessionId, rnd) ==
    Switch(GetSession(sess, sessionId), UpdateMarket(mkt, t, rnd.moves), t, toolName, params, rnd)

-----------------------------------------------------------------------------
(* Tool dispatcher of the basic program (src/api/mcp.js) *)

\* a numeric argument used as it arrives; the basic program is sent whole numbers
RawQty(q10) == q10 \div 10

BasicOrder(params, t, id) ==
    [ id |-> id, symbol |-> params.symbol, qty |-> RawQty(params.qty), type |-> params.type,
      price |-> JsOr(params.price, Num(0)), status |-> "COMPLETE", time |-> t ]

\* the holdings after a BUY; i is the index find() gave, 0 for none
BoughtHoldingsBasic(holdings, i, params) ==
    IF i # 0
    THEN [holdings EXCEPT ![i].qty = @ + RawQty(params.qty)]
    ELSE Append(holdings, [symbol |-> params.symbol, qty |-> RawQty(params.qty), price |-> params.price])

\* PlaceOrderBasic that refuses a BUY the balance does not cover
PlaceOrderBasicFunded(account, params, t, rnd) ==
    [ account |->
        IF params.type = "BUY" /\ ~JsLt(account.balance, JsMulInt(RawQty(params.qty), params.price))
        THEN [account EXCEPT
                !.orders = Append(@, BasicOrder(params, t, rnd.id)),
                !.holdings = BoughtHoldingsBasic(@, FindHolding(@, params.symbol), params),
                !.balance = JsSub(@, JsMulInt(RawQty(params.qty), params.price))]
        ELSE [account EXCEPT !.orders = Append(@, BasicOrder(params, t, rnd.id))],
      result |-> [success |-> TRUE, order |-> BasicOrder(params, t, rnd.id)] ]

\* case 'place-order': the order is recorded first; only type BUY touches the account
PlaceOrderBasic(account, params, t, rnd) ==
    [ account |->
        IF params.type = "BUY"
        THEN [account EXCEPT
                !.orders = Append(@, BasicOrder(params, t, rnd.id)),
                !.holdings = BoughtHoldingsBasic(@, FindHolding(@, params.symbol), params),
                !.balance = JsSub(@, JsMulInt(RawQty(params.qty), params.price))]
        ELSE [account EXCEPT !.orders = Append(@, BasicOrder(params, t, rnd.id))],
      result |-> [success |-> TRUE, order |-> BasicOrder(params, t, rnd.id)] ]

RECURSIVE SumValue(_)
SumValue(holdings) ==
    IF holdings = << >> THEN Num(0)
    ELSE JsAdd(SumValue(SubSeq(holdings, 1, Len(holdings) - 1)),
               JsMulInt(holdings[Len(holdings)].qty, holdings[Len(holdings)].price))

MockPrice(symbol) ==
    CASE symbol = "TCS" -> 3456
      [] symbol = "RELIANCE" -> 2845
      [] symbol = "INFY" -> 1523
      [] symbol = "HDFC" -> 1678
      [] symbol = "WIPRO" -> 456
      [] OTHER -> 1000

\* the switch of executeTool in src/api/mcp.js
SwitchBasic(got, mkt, t, toolName, params, rnd) ==
    CASE toolName = "init" ->
           Return(ResetSession(got), mkt,
                  [ sessionId |-> got.id,
                    message |-> "New account created! Balance reset to 100,000",
                    balance |-> 10000000 ])
      [] toolName = "get-portfolio" ->
           Return(got.sessions, mkt,
                  [ balance |-> got.sessions[got.id].balance,
                    holdings |-> got.sessions[got.id].holdings,
                    total_value |-> JsAdd(got.sessions[got.id].balance,
                                          SumValue(got.sessions[got.id].holdings)) ])
      [] toolName = "get-holdings" ->
           Return(got.sessions, mkt, [holdings |-> got.sessions[got.id].holdings])
      [] toolName = "get-orders" ->
           Return(got.sessions, mkt, [orders |-> got.sessions[got.id].orders])
      [] toolName = "place-order" ->
           Placed(got, mkt, PlaceOrderBasic(got.sessions[got.id], params, t, rnd))
      [] toolName = "get-quote" ->
           Return(got.sessions, mkt, [symbol |-> params.symbol, price |-> MockPrice(params.symbol)])
      [] OTHER -> Throw(got.sessions, mkt, <<"Unknown tool: ", toolName>>)

\* executeTool of src/api/mcp.js
ExecuteToolBasic(sess, mkt, t, toolName, params, sessionId, rnd) ==
    SwitchBasic(GetSession(sess, sessionId), mkt, t, toolName, params, rnd)

-----------------------------------------------------------------------------
(* The request handler (the same in both programs but for the catalogue) *)

ToolCatalogue(v) ==
    IF v = "market"
    THEN << "init", "get-account", "get-holdings", "get-orders", "get-history",
            "place-order", "get-quote", "get-market-news", "get-market-status" >>
    ELSE << "init", "get-portfolio", "get-holdings", "get-orders", "place-order", "get-quote" >>

Dispatch(v, sess, mkt, t, toolName, params, sessionId, rnd) ==
    IF v = "market"
    THEN ExecuteTool(sess, mkt, t, toolName, params, sessionId, rnd)
    ELSE ExecuteToolBasic(sess, mkt, t, toolName, params, sessionId, rnd)

\* what the handler leaves behind: the stores and the response
Served(sess, mkt, status, body) == [sessions |-> sess, market |-> mkt, res |-> [status |-> status, body |-> body]]

RpcResult(id, result) == [kind |-> "rpc_result", jsonrpc |-> "2.0", id |-> id, result |-> result]
RpcError(id, code, message) ==
    [kind |-> "rpc_error", jsonrpc |-> "2.0", id |-> id, error |-> [code |-> code, message |-> message]]

AlertsUri == "market://alerts"

\* ToolsCallResponse that reports a caught Error as a tool result with isError
ToolsCallResponseIsError(id, out) ==
    Served(out.sessions, out.market, 200,
           RpcResult(id, [content |-> out.result, isError |-> out.threw]))

\* tools/call: the result wrapped as text content, or the Error caught
ToolsCallResponse(id, out) ==
    IF out.threw
    THEN Served(out.sessions, out.market, 200, RpcError(id, -32603, out.result.message))
    ELSE Served(out.sessions, out.market, 200,
                RpcResult(id, [content |-> out.result, isError |-> FALSE]))

\* the simplified envelope: the result as it is, or the Error caught by the outer try
SimpleResponse(out) ==
    IF out.threw
    THEN Served(out.sessions, out.market, 500, [kind |-> "error", error |-> out.result.message])
    ELSE Served(out.sessions, out.market, 200, [kind |-> "raw", result |-> out.result])

\* the branch for body.jsonrpc === '2.0'
HandleRpc(v, sess, mkt, t, r, rnd) ==
    CASE r.method = "initialize" ->
           Served(sess, mkt, 200, RpcResult(r.id,
               [ protocolVersion |-> "2024-11-05",
                 capabilities |-> {"tools", "resources", "prompts"},
                 serverInfo |-> [name |-> "zerodha-mock", version |-> "1.0.0"] ]))
      [] r.method \in {"notifications/initialized", "ping"} ->
           Served(sess, mkt, 200, RpcResult(r.id, [empty |-> TRUE]))
      [] r.method = "tools/list" ->
           Served(sess, mkt, 200, RpcResult(r.id, [tools |-> ToolCatalogue(v)]))
      [] r.method = "resources/list" ->
           Served(sess, mkt, 200, RpcResult(r.id,
               [resources |-> IF v = "market" THEN <<AlertsUri>> ELSE << >>]))
      [] r.method = "resources/read" /\ v = "market" ->
           IF r.uri = AlertsUri
           THEN Served(sess, mkt, 200, RpcResult(r.id, [contents |-> <<[uri |-> AlertsUri, text |-> News]>>]))
           ELSE Served(sess, mkt, 200, RpcError(r.id, -32602, <<"Resource not found">>))
      [] r.method = "prompts/list" ->
           Served(sess, mkt, 200, RpcResult(r.id, [prompts |-> << >>]))
      [] r.method = "tools/call" ->
           ToolsCallResponse(r.id, Dispatch(v, sess, mkt, t, r.tool, r.params, DefaultSession, rnd))
      [] OTHER -> Served(sess, mkt, 200, RpcError(r.id, -32601, <<"Method not found">>))

\* HandleSimple without the test for a missing tool
HandleSimpleUnchecked(v, sess, mkt, t, r, rnd) ==
    SimpleResponse(Dispatch(v, sess, mkt, t, r.tool, r.params,
                            IF r.header # "" THEN r.header ELSE r.bodySid, rnd))

\* the simplified envelope: session id from the header or the body
HandleSimple(v, sess, mkt, t, r, rnd) ==
    IF r.tool = ""
    THEN Served(sess, mkt, 400, [kind |-> "error", error |-> <<"Missing tool parameter">>])
    ELSE SimpleResponse(Dispatch(v, sess, mkt, t, r.tool, r.params,
                                 IF r.header # "" THEN r.header ELSE r.bodySid, rnd))

\* handler(req, res)
Handler(v, sess, mkt, t, r, rnd) ==
    IF r.http = "OPTIONS"
    THEN Served(sess, mkt, 200, [kind |-> "end"])
    ELSE IF r.jsonrpc
    THEN HandleRpc(v, sess, mkt, t, r, rnd)
    ELSE HandleSimple(v, sess, mkt, t, r, rnd)

-----------------------------------------------------------------------------------------------------------------------------------------------------
(* Requests and random draws the model sends *)

NoArgs == [symbol |-> "", qty |-> 0, side |-> "", type |-> "", price |-> Undefined, days |-> Undefined]

RpcRequest(method, tool, params, uri) ==
    [ http |-> "POST", jsonrpc |-> TRUE, method |-> method, id |-> 1, tool |-> tool,
      params |-> params, header |-> "", bodySid |-> "", uri |-> uri, client |-> 1 ]

SimpleRequest(header, bodySid, tool, params) ==
    [ http |-> "POST", jsonrpc |-> FALSE, method |-> "", id |-> 0, tool |-> tool,
      params |-> params, header |-> header, bodySid |-> bodySid, uri |-> "", client |-> 1 ]

\* the envelopes a tool call comes in: JSON-RPC, which always works on the default
\* session,
RpcCalls == { RpcRequest("tools/call", "", NoArgs, "") }

\* the simplified envelope with x-session-id: A as well,
TradeCalls == RpcCalls \cup { SimpleRequest("A", "", "", NoArgs) }

\* and the simplified envelope without a session id
AllCalls == TradeCalls \cup { SimpleRequest("", "", "", NoArgs) }

\* the requests that call a tool in these envelopes
Calls(envelopes, tool, params) ==
    { [e EXCEPT !.tool = tool, !.params = params] : e \in envelopes }

SessionIds == {DefaultSession, "A", "B"}

\* the session a request is served from
SessionOf(r) ==
    IF r.jsonrpc THEN DefaultSession
    ELSE GetSession(sessions, IF r.header # "" THEN r.header ELSE r.bodySid).id

OrdersOf(id) == IF id \in DOMAIN sessions THEN sessions[id].orders ELSE << >>

\* orders on record over all sessions
RECURSIVE CountOrders(_)
CountOrders(ids) ==
    IF ids = {} THEN 0
    ELSE LET id == CHOOSE x \in ids : TRUE
         IN  Len(OrdersOf(id)) + CountOrders(ids \ {id})

Order(symbol, qty, side, type, price) ==
    [symbol |-> symbol, qty |-> qty, side |-> side, type |-> type, price |-> price, days |-> Undefined]

\* place-order arguments; qty is in tenths (27 is 2.7, which parseInt makes 2)
OrderForms ==
    { Order("tcs", 50, "BUY", "", Undefined),
      Order("tcs", 10000, "BUY", "", Undefined),
      Order("TCS", 50, "", "BUY", Num(700)),
      Order("WIPRO", 0, "BUY", "", Undefined),
      Order("WIPRO", 2240, "BUY", "", Undefined),
      Order("XYZ", 50, "BUY", "", Undefined),
      Order("tcs", 100, "SELL", "", Undefined),
      Order("tcs", 110, "SELL", "", Undefined),
      Order("INFY", 27, "SELL", "", Undefined),
      Order("WIPRO", 50, "SELL", "", Undefined),
      Order("tcs", 50, "buy", "", Undefined),
      Order("tcs", -100, "BUY", "", Undefined),
      Order("tcs", -10000, "SELL", "", Undefined) }

\* the few the full handler is driven with
FewForms ==
    { Order("tcs", 50, "BUY", "", Undefined),
      Order("tcs", 100, "SELL", "", Undefined),
      Order("XYZ", 50, "BUY", "", Undefined) }

\* place-order arguments for the basic program, which reads `type` and `price`
OrderFormsBasic ==
    { Order(sym, q, "", type, Num(2500000)) :
        sym \in {"TCS", "tcs", "WIPRO"}, q \in {0, 30, 50}, type \in {"BUY", "SELL"} }
    \cup { Order("TCS", 50, "BUY", "", Num(2500000)),
           Order("TCS", 50, "", "BUY", Undefined) }

FewFormsBasic ==
    { Order("TCS", 50, "", "BUY", Num(2500000)),
      Order("tcs", 50, "", "BUY", Num(2500000)),
      Order("TCS", 50, "", "SELL", Num(2500000)) }

\* (Math.random() - 0.5) * 10 is drawn in tenths of a paise
NoMoves == [s \in StockSymbols |-> 0]

\* the draws of one refresh: TCS falls and the rest barely move, or TCS rises and
\* the rest fall
MoveVectors ==
    { [s \in StockSymbols |-> IF s = "TCS" THEN -4996 ELSE 4],
      [s \in StockSymbols |-> IF s = "TCS" THEN 4996 ELSE -4996] }

\* every stock falls by 5.00
Slump == { [s \in StockSymbols |-> -4996] }

\* the draws a call makes for the refresh: none unless one is due
Refresh(vectors) ==
    IF now - marketState.lastUpdate > RefreshMs /\ variant = "market" THEN vectors ELSE {NoMoves}

Draw(change, high, low, volume) == [change |-> change, high |-> high, low |-> low, volume |-> volume]

NoDraws == <<Draw(5, 0, 0, 0)>>

\* generateId()
OrderIds == {"k3x9"}

Random(moves, id, tieUp, u, draws) ==
    [moves |-> moves, id |-> id, tieUp |-> tieUp, u |-> u, draws |-> draws]

NoRandom == Random(NoMoves, "", FALSE, 0, NoDraws)

-----------------------------------------------------------------------------
(* Actions *)

NoRequest == SimpleRequest("", "", "", NoArgs)
NoResponse == [status |-> 0, body |-> [kind |-> "none"]]

Init ==
    /\ variant \in {"market", "basic"}
    /\ sessions = << >>
    /\ marketState = [stocks |-> InitialStocks, lastUpdate |-> 0]
    /\ now = 0
    /\ req = NoRequest
    /\ res = NoResponse

\* one request served from start to end
Respond(r, out) ==
    /\ sessions' = out.sessions
    /\ marketState' = out.market
    /\ res' = out.res
    /\ req' = r
    /\ UNCHANGED <<variant, now>>

Serve(r, rnd) == Respond(r, Handler(variant, sessions, marketState, now, r, rnd))

\* time passes between requests
Clock(steps, limit) ==
    /\ \E dt \in steps :
          /\ now + dt <= limit
          /\ now' = now + dt
    /\ UNCHANGED <<variant, sessions, marketState, req, res>>

ClockSteps == {RefreshMs, RefreshMs + 1}

CallInit(envelopes, vectors) ==
    \E r \in Calls(envelopes, "init", NoArgs), moves \in Refresh(vectors) :
        Serve(r, [NoRandom EXCEPT !.moves = moves])

CallPlaceOrder(envelopes, vectors, forms, maxOrders) ==
    \E params \in forms :
      \E r \in Calls(envelopes, "place-order", params), moves \in Refresh(vectors),
         id \in OrderIds, tieUp \in BOOLEAN :
        /\ CountOrders(DOMAIN sessions) < maxOrders
        /\ Serve(r, Random(moves, id, tieUp, 0, NoDraws))

ReadTools ==
    IF variant = "market"
    THEN {"get-account", "get-holdings", "get-orders", "get-quote", "get-market-news", "get-market-status"}
    ELSE {"get-portfolio", "get-holdings", "get-orders", "get-quote"}

CallRead(envelopes, vectors, tools, symbols) ==
    \E tool \in tools \cap ReadTools, sym \in symbols :
      \E r \in Calls(envelopes, tool, [NoArgs EXCEPT !.symbol = IF tool = "get-quote" THEN sym ELSE ""]),
         moves \in Refresh(vectors), u \in {0, 9} :
        /\ tool # "get-quote" => sym = CHOOSE x \in symbols : TRUE
        /\ tool # "get-market-status" => u = 0
        /\ Serve(r, [NoRandom EXCEPT !.moves = moves, !.u = u])

AllTools ==
    { "init", "get-account", "get-portfolio", "get-holdings", "get-orders", "get-history",
      "place-order", "get-quote", "get-market-news", "get-market-status" }

CallUnknownTool ==
    \E tool \in {"get-portfolio", "get-account", "buy-stock"} :
      \E r \in Calls(AllCalls, tool, NoArgs), moves \in Refresh(MoveVectors) :
        /\ tool \notin ReadTools
        /\ Serve(r, [NoRandom EXCEPT !.moves = moves])

RpcMethods ==
    { "initialize", "notifications/initialized", "ping", "tools/list", "resources/list",
      "resources/read", "prompts/list", "tools/unknown" }

CallProtocol ==
    \E method \in RpcMethods, uri \in {AlertsUri, "market://none"} :
        /\ method # "resources/read" => uri = AlertsUri
        /\ Serve(RpcRequest(method, "", NoArgs, uri), NoRandom)

CallMissingTool ==
    \E header \in {"", "A"} : Serve(SimpleRequest(header, "", "", NoArgs), NoRandom)

Preflight == Serve([NoRequest EXCEPT !.http = "OPTIONS"], NoRandom)

\* the Math.random() draws of the candles, in tenths, used in turn
DrawLists ==
    { <<Draw(5, 0, 0, 0)>>, <<Draw(0, 9, 9, 9)>>, <<Draw(9, 9, 0, 3)>>,
      <<Draw(9, 0, 9, 0), Draw(0, 5, 5, 9)>> }

HistoryDays == {Undefined, Num(0), Num(1), Num(3)}

CallHistory(envelopes, vectors, symbols) ==
    \E sym \in symbols, days \in HistoryDays, draws \in DrawLists :
      \E r \in Calls(envelopes, "get-history", [NoArgs EXCEPT !.symbol = sym, !.days = days]),
         moves \in Refresh(vectors) :
        /\ variant = "market"
        /\ Serve(r, [NoRandom EXCEPT !.moves = moves, !.draws = draws])

RefreshPeriod == RefreshMs + 1

\* the whole handler, driven with few orders
Next ==
    \/ Clock(ClockSteps, MaxTicks * RefreshPeriod)
    \/ CallInit(AllCalls, MoveVectors)
    \/ CallPlaceOrder(AllCalls, MoveVectors,
                      IF variant = "market" THEN FewForms ELSE FewFormsBasic, MaxFewOrders)
    \/ CallRead(AllCalls, MoveVectors, AllTools, {"tcs", "XYZ"})
    \/ CallUnknownTool
    \/ CallProtocol
    \/ CallMissingTool
    \/ Preflight

Spec == Init /\ [][Next]_vars

\* trading alone: init and place-order, with the full set of order forms
NextTrade ==
    \/ Clock({RefreshPeriod}, MaxTicks * RefreshPeriod)
    \/ CallInit(RpcCalls, MoveVectors)
    \/ CallPlaceOrder(RpcCalls, MoveVectors,
                      IF variant = "market" THEN OrderForms ELSE OrderFormsBasic, MaxOrders)

SpecTrade == Init /\ [][NextTrade]_vars

\* the order log under every tool: init, a few orders and the read-only tools,
\* on two sessions
NextLog ==
    \/ Clock({RefreshPeriod}, MaxTicks * RefreshPeriod)
    \/ CallInit(TradeCalls, MoveVectors)
    \/ CallPlaceOrder(TradeCalls, MoveVectors,
                      IF variant = "market" THEN FewForms ELSE FewFormsBasic, MaxOrders)
    \/ CallRead(TradeCalls, MoveVectors, AllTools, {"tcs"})

SpecLog == Init /\ [][NextLog]_vars

\* two clients, each sending JSON-RPC with and without an x-session-id header and
\* the simplified envelope without a session id, with x-session-id: A and with
\* sessionId: 'B' in the body
Clients == {1, 2}

SharedCalls ==
    { [e EXCEPT !.client = c] :
        e \in AllCalls \cup { [RpcRequest("tools/call", "", NoArgs, "") EXCEPT !.header = "A"],
                              SimpleRequest("", "B", "", NoArgs) },
        c \in Clients }

AccountTools == {"get-account", "get-portfolio", "get-holdings", "get-orders"}

NextShared ==
    \/ CallInit(SharedCalls, MoveVectors)
    \/ CallPlaceOrder(SharedCalls, MoveVectors,
                      IF variant = "market" THEN FewForms ELSE FewFormsBasic, MaxFewOrders)
    \/ CallRead(SharedCalls, MoveVectors, AccountTools, {"tcs"})

SpecShared == Init /\ [][NextShared]_vars

\* the market-aware program alone
InitMarket == Init /\ variant = "market"

\* quotes and failing calls around the refresh threshold and after a long gap
NextMarket ==
    \/ Clock({RefreshMs, RefreshPeriod, 2 * RefreshPeriod}, (MaxTicks + 1) * RefreshPeriod)
    \/ CallRead(RpcCalls, MoveVectors, {"get-quote", "get-market-status"}, {"tcs", "WIPRO"})
    \/ CallUnknownTool

SpecMarket == InitMarket /\ [][NextMarket]_vars

\* calls that must be refused: orders, quotes and histories, unlisted symbols
\* among them
RejectForms ==
    OrderForms \cup { Order("XYZ", 10000, "BUY", "", Num(700)),
                      Order("XYZ", 50, "SELL", "", Undefined) }

NextReject ==
    \/ CallPlaceOrder(TradeCalls, MoveVectors, RejectForms, MaxFewOrders)
    \/ CallRead(TradeCalls, MoveVectors, {"get-quote"}, {"tcs", "XYZ"})
    \/ CallHistory(RpcCalls, MoveVectors, {"tcs", "XYZ"})

SpecReject == InitMarket /\ [][NextReject]_vars

\* price history while the market moves
NextHistory ==
    \/ Clock({RefreshPeriod}, MaxTicks * RefreshPeriod)
    \/ CallHistory(RpcCalls, MoveVectors, {"tcs", "WIPRO", "XYZ"})

SpecHistory == InitMarket /\ [][NextHistory]_vars

\* buying and selling back: the same lots of TCS and INFY either way, a negative
\* lot among them
TripQtys == {50, 70, -100}

TripForms == { Order(sym, q, side, "", Undefined) :
                 sym \in {"tcs", "INFY"}, q \in TripQtys, side \in {"BUY", "SELL"} }

NextTrip ==
    \/ Clock({RefreshPeriod}, MaxTicks * RefreshPeriod)
    \/ CallPlaceOrder(RpcCalls, MoveVectors, TripForms, MaxOrders)

SpecTrip == InitMarket /\ [][NextTrip]_vars

\* repeated BUYs of INFY on the default session, the market moving in between;
\* the seeded 15 and even lots keep the quantity odd, so no average is a tie of
\* toFixed(2)
AvgForms == { Order("INFY", q, "BUY", "", Undefined) : q \in {20, 40, 60} }

NextAvg ==
    \/ Clock({RefreshPeriod}, MaxTicks * RefreshPeriod)
    \/ CallPlaceOrder(RpcCalls, MoveVectors, AvgForms, MaxBuys)

SpecAvg == InitMarket /\ [][NextAvg]_vars

\* a long slump: every refresh takes 5.00 off every price, a quote or an order
\* being the call that triggers it
DriftForms == { Order("WIPRO", 10, "BUY", "", Num(700)) }

\* a client that calls in every refresh period: the clock moves on once the
\* refresh that is due has been made
PolledClock(limit) ==
    /\ now - marketState.lastUpdate <= RefreshMs
    /\ Clock({RefreshPeriod}, limit)

NextDrift ==
    \/ PolledClock(MaxDrift * RefreshPeriod)
    \/ CallRead(RpcCalls, Slump, {"get-quote", "get-holdings"}, {"WIPRO"})
    \/ CallPlaceOrder(RpcCalls, Slump, DriftForms, MaxFewOrders)

SpecDrift == InitMarket /\ [][NextDrift]_vars

-----------------------------------------------------------------------------
(* What the last request was and what it got back *)

\* the request reached executeTool
Dispatched ==
    /\ req.http = "POST"
    /\ IF req.jsonrpc THEN req.method = "tools/call" ELSE req.tool # ""

\* the session id executeTool worked on
Target ==
    CASE req.jsonrpc -> DefaultSession
      [] req.header # "" -> req.header
      [] req.bodySid # "" -> req.bodySid
      [] OTHER -> DefaultSession

\* executeTool returned a value, which the response carries
Returned == Dispatched /\ res.body.kind \in {"rpc_result", "raw"}

ToolResult == IF res.body.kind = "rpc_result" THEN res.body.result.content ELSE res.body.result

\* the account a session id stands for: the stored one, or the seeded one that the
\* first reference would create
AccountOf(id) == IF id \in DOMAIN sessions THEN sessions[id] ELSE CreateAccount

\* a place-order of the market-aware program came back
OrderReturned == variant = "market" /\ Returned /\ req.tool = "place-order"
OrderRejected == OrderReturned /\ ToolResult.status = "REJECTED"
OrderComplete == OrderReturned /\ ToolResult.status = "COMPLETE"

\* the symbol, quantity and side the dispatcher read from the arguments
AskedSymbol == ToUpperCase(req.params.symbol)
AskedQty == ParseInt(req.params.qty)
AskedSide == OrderSide(req.params)

\* quantity held of a symbol, 0 when there is no entry
HeldQty(account, symbol) ==
    IF FindHolding(account.holdings, symbol) = 0 THEN 0
    ELSE account.holdings[FindHolding(account.holdings, symbol)].qty

IsPrefix(a, b) == Len(a) <= Len(b) /\ SubSeq(b, 1, Len(a)) = a

\* a step in which the handler served a request (the clock stands still in it)
HandlerStep == now' = now

-----------------------------------------------------------------------------
(* Claims *)

\* C1: whenever place-order of the market-aware program returns REJECTED, with one of
\* the three reasons, the session's account (balance, holdings, orders) is what it
\* was before the call.
C1_RejectedOrderLeavesAccount ==
    [][\A id \in SessionIds :
          (HandlerStep /\ OrderRejected' /\ Target' = id)
          => /\ ToolResult'.reason \in {"Symbol not found", "Insufficient funds", "Insufficient holdings"}
             /\ AccountOf(id)' = AccountOf(id)]_vars

\* C1 witness: a BUY refused for insufficient funds on an account that has traded
C1_Witness ==
    /\ OrderRejected
    /\ ToolResult.reason = "Insufficient funds"
    /\ AskedSide = "BUY"
    /\ Len(AccountOf(Target).orders) > 0

\* C2: a BUY issued with a balance >= 0 leaves the balance >= 0, and a BUY whose
\* qty x market price equals the balance is accepted and leaves balance 0.
C2_BuyKeepsBalanceNonNegative ==
    [][\A id \in SessionIds :
          (HandlerStep /\ OrderReturned' /\ Target' = id /\ AskedSide' = "BUY"
             /\ AccountOf(id).balance.v >= 0)
          => /\ AccountOf(id)'.balance.k = "num"
             /\ AccountOf(id)'.balance.v >= 0
             /\ (/\ AskedSymbol' \in StockSymbols
                 /\ AskedQty' * marketState'.stocks[AskedSymbol'].price = AccountOf(id).balance.v)
                => (OrderComplete' /\ AccountOf(id)'.balance.v = 0)]_vars

\* C2 witness: an accepted BUY that spent the whole balance
C2_Witness ==
    /\ OrderComplete
    /\ AskedSide = "BUY"
    /\ AskedQty > 0
    /\ AccountOf(Target).balance = Num(0)

C4_NoZeroHolding ==
    variant = "market"
    => \A id \in DOMAIN sessions :
         \A i \in 1..Len(sessions[id].holdings) : sessions[id].holdings[i].qty # 0

RECURSIVE LotCost(_, _)
LotCost(orders, symbol) ==
    IF orders = << >> THEN 0
    ELSE (IF orders[1].symbol = symbol THEN orders[1].qty * orders[1].price.v ELSE 0)
         + LotCost(Tail(orders), symbol)

RECURSIVE LotQty(_, _)
LotQty(orders, symbol) ==
    IF orders = << >> THEN 0
    ELSE (IF orders[1].symbol = symbol THEN orders[1].qty ELSE 0) + LotQty(Tail(orders), symbol)

\* the lot a seeded account starts with at position i
SeedLot(i) == CreateAccount.holdings[i]

\* |stored price x quantity - exact cost of all lots| for the i-th holding of an
\* account that has only bought; divided by the quantity it is the distance of
\* the stored price from the weighted mean
AvgError(account, i) ==
    Abs(account.holdings[i].price.v * account.holdings[i].qty
        - (SeedLot(i).qty * SeedLot(i).price.v
           + LotCost(account.orders, account.holdings[i].symbol)))

\* C6 (as claimed): after any sequence of accepted BUYs of a symbol on its seeded
\* lot the stored cost-basis price is within 0.01 of the exact quantity-weighted
\* mean of all lot prices.
C6_AveragePriceWithinCent ==
    \A id \in DOMAIN sessions :
      \A i \in 1..Len(sessions[id].holdings) :
        /\ sessions[id].holdings[i].symbol = SeedLot(i).symbol
        /\ sessions[id].holdings[i].qty
             = SeedLot(i).qty + LotQty(sessions[id].orders, SeedLot(i).symbol)
        /\ AvgError(sessions[id], i) <= sessions[id].holdings[i].qty

\* C7 (as claimed): every accepted place-order executes at the market price after
\* the call's refresh, whatever price the caller supplied: executed_price and the
\* recorded order carry it, a BUY debits qty x market price and a SELL credits it.
C7_ExecutesAtMarketPrice ==
    [][\A id \in SessionIds :
          (HandlerStep /\ OrderComplete' /\ Target' = id)
          => /\ ToolResult'.executed_price = marketState'.stocks[AskedSymbol'].price
             /\ AccountOf(id)'.orders[Len(AccountOf(id)'.orders)].price
                  = Num(marketState'.stocks[AskedSymbol'].price)
             /\ AskedSide' = "BUY"
                => AccountOf(id)'.balance
                     = JsSub(AccountOf(id).balance,
                             Num(AskedQty' * marketState'.stocks[AskedSymbol'].price))
             /\ AskedSide' = "SELL"
                => AccountOf(id)'.balance
                     = JsAdd(AccountOf(id).balance,
                             Num(AskedQty' * marketState'.stocks[AskedSymbol'].price))]_vars

\* C8: after init the session's account is the seeded account: balance 100000, the
\* three preset holdings, no orders (so init after init changes nothing).
C8_InitResets ==
    [][\A id \in SessionIds :
          (HandlerStep /\ Returned' /\ req'.tool = "init" /\ Target' = id)
          => /\ id \in DOMAIN sessions'
             /\ sessions'[id].balance = Num(10000000)
             /\ sessions'[id].holdings =
                  << [symbol |-> "TCS", qty |-> 10, price |-> Num(340000)],
                     [symbol |-> "RELIANCE", qty |-> 5, price |-> Num(280000)],
                     [symbol |-> "INFY", qty |-> 15, price |-> Num(150000)] >>
             /\ sessions'[id].orders = << >>
             /\ ToolResult'.balance = 10000000]_vars

\* C8 witness: init served at a later time to a session that exists
C8_Witness ==
    /\ Returned
    /\ req.tool = "init"
    /\ now > 0
    /\ Target \in DOMAIN sessions

\* C9 (as claimed): across every step each session's order list keeps the list
\* before the step as a prefix.
C9_OrdersAppendOnly ==
    [][\A id \in SessionIds : IsPrefix(AccountOf(id).orders, AccountOf(id)'.orders)]_vars

\* C9 (amended): a call other than init keeps the session's order list as a prefix
\* and appends at most one record, only in a place-order on that session; init on
\* a session empties its list and leaves the other sessions' lists alone.
C9_OrdersAppendOnlyButInit ==
    [][\A id \in SessionIds :
          \/ /\ IsPrefix(AccountOf(id).orders, AccountOf(id)'.orders)
             /\ Len(AccountOf(id)'.orders) <= Len(AccountOf(id).orders) + 1
             /\ Len(AccountOf(id)'.orders) = Len(AccountOf(id).orders) + 1
                => (Returned' /\ req'.tool = "place-order" /\ Target' = id)
          \/ /\ Returned' /\ req'.tool = "init" /\ Target' = id
             /\ AccountOf(id)'.orders = << >>]_vars

\* C9 witness: a second order appended behind the first
C9_Witness ==
    /\ Returned
    /\ req.tool = "place-order"
    /\ Len(AccountOf(Target).orders) = 2

\* the tools the switch of each program knows
SwitchTools ==
    IF variant = "market"
    THEN { "init", "get-account", "get-holdings", "get-orders", "get-history", "place-order",
           "get-quote", "get-market-news", "get-market-status" }
    ELSE { "init", "get-portfolio", "get-holdings", "get-orders", "place-order", "get-quote" }

\* the JSON-RPC methods each handler knows
HandledMethods ==
    { "initialize", "notifications/initialized", "ping", "tools/list", "resources/list",
      "prompts/list", "tools/call" }
    \cup (IF variant = "market" THEN {"resources/read"} ELSE {})

\* C10: tools/call of an unknown tool answers a JSON-RPC error -32603 'Unknown tool:
\* <name>'; an unrecognized method answers -32601 'Method not found'; an unknown tool
\* in the simplified envelope answers HTTP 500 {error: message}.
C10_UnknownToolAndMethod ==
    /\ (req.http = "POST" /\ req.jsonrpc /\ req.method = "tools/call" /\ req.tool \notin SwitchTools)
       => /\ res.body.kind = "rpc_error"
          /\ res.body.error = [code |-> -32603, message |-> <<"Unknown tool: ", req.tool>>]
    /\ (req.http = "POST" /\ req.jsonrpc /\ req.method \notin HandledMethods)
       => /\ res.body.kind = "rpc_error"
          /\ res.body.error = [code |-> -32601, message |-> <<"Method not found">>]
    /\ (req.http = "POST" /\ ~req.jsonrpc /\ req.tool # "" /\ req.tool \notin SwitchTools)
       => /\ res.status = 500
          /\ res.body = [kind |-> "error", error |-> <<"Unknown tool: ", req.tool>>]

\* C10 witness: tools/call of a tool the switch does not know, answered
C10_Witness ==
    /\ req.jsonrpc /\ req.method = "tools/call" /\ req.tool = "buy-stock"
    /\ res.body.kind = "rpc_error"

\* the request names no session: JSON-RPC, or neither header nor body field
NoSessionId(r) == r.jsonrpc \/ (r.header = "" /\ r.bodySid = "")

\* the result of an account tool shows the account of session id
ShowsAccount(id) ==
    /\ req.tool = "get-orders" => ToolResult.orders = sessions[id].orders
    /\ req.tool \in {"get-account", "get-portfolio"} => ToolResult.balance = sessions[id].balance
    /\ req.tool = "get-holdings"
       => /\ Len(ToolResult.holdings) = Len(sessions[id].holdings)
          /\ \A i \in 1..Len(ToolResult.holdings) :
                /\ ToolResult.holdings[i].symbol = sessions[id].holdings[i].symbol
                /\ ToolResult.holdings[i].qty = sessions[id].holdings[i].qty

\* the last place-order went through and was recorded
OrderPlaced ==
    /\ Returned /\ req.tool = "place-order"
    /\ variant = "market" => ToolResult.status = "COMPLETE"

Probe(c, tool) == [SimpleRequest("", "", tool, NoArgs) EXCEPT !.client = c]

ObservedBy(c) ==
    [ orders |-> Handler(variant, sessions, marketState, now, Probe(c, "get-orders"), NoRandom).res,
      holdings |-> Handler(variant, sessions, marketState, now, Probe(c, "get-holdings"), NoRandom).res,
      account |-> Handler(variant, sessions, marketState, now,
                          Probe(c, IF variant = "market" THEN "get-account" ELSE "get-portfolio"),
                          NoRandom).res ]

\* C12 (as claimed): clients that name no session have separate accounts: a call
\* served to one client without a session id never changes the orders, holdings
\* or balance another such client is shown.
C12_UniqueSessionPerClient ==
    [][\A c \in Clients :
          (HandlerStep /\ Dispatched' /\ NoSessionId(req') /\ req'.client # c)
          => ObservedBy(c)' = ObservedBy(c)]_vars

\* get-history of the market-aware program came back
HistoryReturned == variant = "market" /\ Returned /\ req.tool = "get-history"

Max2(a, b) == IF a > b THEN a ELSE b
Min2(a, b) == IF a < b THEN a ELSE b

\* the candles are in ascending date order and each has high >= max(open, close)
\* and low <= min(open, close)
WellFormedHistory(history) ==
    /\ \A k \in 1..(Len(history) - 1) : history[k].date < history[k + 1].date
    /\ \A k \in 1..Len(history) :
          /\ history[k].high >= Max2(history[k].open, history[k].close)
          /\ history[k].low <= Min2(history[k].open, history[k].close)

\* C13 (as claimed): get-history of a listed symbol with days = N >= 0 returns exactly
\* N candles (30 when days is omitted), in ascending date order, each with
\* high >= max(open, close) and low <= min(open, close); an unlisted symbol gets
\* {error: 'Symbol not found'}.
C13_HistoryLengthAndShape ==
    HistoryReturned
    => IF ToUpperCase(req.params.symbol) \in StockSymbols
       THEN /\ Len(ToolResult.history)
                 = (IF req.params.days = Undefined THEN 30 ELSE req.params.days.v)
            /\ WellFormedHistory(ToolResult.history)
       ELSE ToolResult = [error |-> "Symbol not found"]

\* one tick between two market states: every price moves by at most 5.00 and the
\* trend is UP or DOWN, UP if the price rose and DOWN if it fell
OneTick(before, after) ==
    \A sym \in StockSymbols :
        /\ Abs(after.stocks[sym].price - before.stocks[sym].price) <= 500
        /\ after.stocks[sym].trend \in {"UP", "DOWN"}
        /\ after.stocks[sym].price > before.stocks[sym].price => after.stocks[sym].trend = "UP"
        /\ after.stocks[sym].price < before.stocks[sym].price => after.stocks[sym].trend = "DOWN"

\* a quote shows the price and trend the market holds
QuoteIsCurrent ==
    (Returned /\ req.tool = "get-quote" /\ ToUpperCase(req.params.symbol) \in StockSymbols)
    => /\ ToolResult.price = marketState.stocks[ToUpperCase(req.params.symbol)].price
       /\ ToolResult.trend = marketState.stocks[ToUpperCase(req.params.symbol)].trend

\* C14: a dispatcher call at most 5000 ms after lastUpdate leaves prices, trends and
\* lastUpdate alone, so quotes in between show the same price and trend; a call
\* after more than 5000 ms applies one tick, whatever the gap, and sets lastUpdate
\* to the time of the call.
C14_RefreshIsTimeGated ==
    [][(HandlerStep /\ variant = "market" /\ Dispatched')
       => /\ IF now - marketState.lastUpdate > 5000
             THEN /\ marketState'.lastUpdate = now
                  /\ OneTick(marketState, marketState')
                  /\ DOMAIN marketState'.stocks = StockSymbols
             ELSE marketState' = marketState
          /\ QuoteIsCurrent']_vars

\* C14 witness: a quote served exactly 5000 ms after the last refresh, without one
C14_Witness ==
    /\ variant = "market" /\ Returned /\ req.tool = "get-quote"
    /\ now - marketState.lastUpdate = 5000
    /\ ToolResult.price = 345000

\* the business rejection a place-order must come back with, "" for none: the
\* symbol check first, then funds for a BUY and holdings for a SELL
DueRejection(account, mkt, symbol, qty, side) ==
    CASE symbol \notin DOMAIN mkt.stocks -> "Symbol not found"
      [] side = "BUY" /\ account.balance.v < qty * mkt.stocks[symbol].price -> "Insufficient funds"
      [] side = "SELL" /\ (HeldQty(account, symbol) < qty
                            \/ FindHolding(account.holdings, symbol) = 0) -> "Insufficient holdings"
      [] OTHER -> ""

\* the response carries a returned value and no error: over JSON-RPC a result
\* with isError false, over the simplified envelope HTTP 200 with the value
ArrivesAsResult ==
    /\ Returned
    /\ res.status = 200
    /\ req.jsonrpc => (res.body.kind = "rpc_result" /\ res.body.result.isError = FALSE)

\* C15: business rejections are returned, never thrown: place-order that must be
\* refused comes back {status: 'REJECTED', reason} with the symbol check ahead of
\* the funds and holdings checks, get-quote and get-history of an unlisted symbol
\* come back {error: 'Symbol not found'}, and over JSON-RPC each arrives as a
\* result with isError false.
C15_RejectionsAreReturned ==
    [][\A id \in SessionIds :
          (HandlerStep /\ variant = "market" /\ Dispatched' /\ Target' = id
             /\ req'.params.symbol # "")
          => /\ (req'.tool = "place-order"
                  /\ DueRejection(AccountOf(id), marketState', AskedSymbol', AskedQty', AskedSide') # "")
                => /\ ArrivesAsResult'
                   /\ ToolResult' = [ status |-> "REJECTED",
                                      reason |-> DueRejection(AccountOf(id), marketState',
                                                              AskedSymbol', AskedQty', AskedSide') ]
             /\ (req'.tool \in {"get-quote", "get-history"} /\ AskedSymbol' \notin StockSymbols)
                => /\ ArrivesAsResult'
                   /\ ToolResult' = [error |-> "Symbol not found"]]_vars

\* C15 witness: over JSON-RPC, an unlisted symbol bought beyond the balance is
\* refused for the symbol
C15_Witness ==
    /\ OrderRejected /\ req.jsonrpc
    /\ AskedSymbol = "XYZ" /\ AskedSide = "BUY" /\ AskedQty = 1000
    /\ ToolResult.reason = "Symbol not found"
    /\ res.body.result.isError = FALSE

\* C16 (as claimed): in the market-aware program every holding's quantity is a
\* non-negative integer, whatever integer quantities (zero and negative too) the
\* BUY and SELL orders carried.
C16_QtyNonNegative ==
    variant = "market"
    => \A id \in DOMAIN sessions :
         \A i \in 1..Len(sessions[id].holdings) : sessions[id].holdings[i].qty \in Nat

\* C17: a request in the simplified envelope without `tool` is answered HTTP 400
\* {error: 'Missing tool parameter'} and changes nothing: no session is created, no
\* account changes, the market is not refreshed.
C17_MissingToolIs400 ==
    [][(HandlerStep /\ req'.http = "POST" /\ ~req'.jsonrpc /\ req'.tool = "")
       => /\ res'.status = 400
          /\ res'.body = [kind |-> "error", error |-> <<"Missing tool parameter">>]
          /\ sessions' = sessions
          /\ marketState' = marketState]_vars

\* C17 witness: answered 400 with x-session-id: A when a refresh was due and
\* session A did not exist
C17_Witness ==
    /\ res.status = 400 /\ req.tool = "" /\ req.header = "A"
    /\ variant = "market"
    /\ now - marketState.lastUpdate > RefreshMs
    /\ "A" \notin DOMAIN sessions

\* the names tools/list publishes
ListedTools ==
    { Handler(variant, sessions, marketState, now,
              RpcRequest("tools/list", "", NoArgs, ""), NoRandom).res.body.result.tools[i] :
        i \in 1..Len(ToolCatalogue(variant)) }

\* the tools of the tool table and of the two README lists
DocumentedTools ==
    { "init", "get-account", "get-portfolio", "get-holdings", "get-orders", "get-history",
      "get-quote", "get-market-news", "get-market-status", "place-order" }

\* the last call was refused as an unknown tool
UnknownToolAnswer ==
    /\ Dispatched
    /\ \/ res.body.kind = "rpc_error" /\ res.body.error.message = <<"Unknown tool: ", req.tool>>
       \/ res.body.kind = "error" /\ res.body.error = <<"Unknown tool: ", req.tool>>

\* C18 (as claimed): the tools tools/list publishes are the tools the dispatcher
\* accepts: every published tool and every documented tool, get-portfolio and
\* get-account among them, runs without an 'Unknown tool' error, and every tool
\* that runs is published.
C18_CatalogueIsDispatcher ==
    Dispatched
    => /\ req.tool \in ListedTools \cup DocumentedTools => ~UnknownToolAnswer
       /\ ~UnknownToolAnswer => req.tool \in ListedTools

\* the call that first names session id finds the seeded account: it answers and
\* leaves the store as it would had the seeded account been stored under id before
FirstSeenAsSeeded(id) ==
    /\ Dispatched' /\ Target' = id
    /\ req'.tool # "place-order"
       => /\ sessions'[id].balance = Num(10000000)
          /\ Len(sessions'[id].holdings) = 3
          /\ sessions'[id].orders = << >>
          /\ Returned' => ShowsAccount(id)'
    /\ \E moves \in Refresh(MoveVectors), oid \in OrderIds, tieUp \in BOOLEAN :
          LET seeded == Handler(variant, SetSession(sessions, id, CreateAccount), marketState, now,
                                req', Random(moves, oid, tieUp, 0, NoDraws))
          IN  seeded.sessions = sessions' /\ seeded.res = res'

\* C19: sessions are isolated and never destroyed: a call on session A leaves the
\* account of every other session as it was, the set of sessions only grows, and
\* the first call that names an unseen session finds a freshly seeded account
\* (balance 100000, three holdings, no orders) of its own.
C19_SessionsIsolated ==
    [][/\ DOMAIN sessions \subseteq DOMAIN sessions'
       /\ \A id \in DOMAIN sessions :
             sessions'[id] # sessions[id] => Dispatched' /\ Target' = id
       /\ \A id \in DOMAIN sessions' \ DOMAIN sessions : FirstSeenAsSeeded(id)]_vars

\* C19 witness: session A, named for the first time, shows no orders while another
\* session holds one
C19_Witness ==
    /\ Returned /\ ~req.jsonrpc /\ req.header = "A" /\ req.tool = "get-orders"
    /\ ToolResult.orders = << >>
    /\ sessions["A"] = CreateAccount
    /\ \E id \in DOMAIN sessions \ {"A"} : Len(sessions[id].orders) = 1

\* qty x price summed over the orders of one side in an order list
RECURSIVE SideValue(_, _)
SideValue(orders, side) ==
    IF orders = << >> THEN 0
    ELSE (IF orders[1].side = side THEN orders[1].qty * orders[1].price.v ELSE 0)
         + SideValue(Tail(orders), side)

\* the quantity of a symbol that the orders of one side in an order list moved
RECURSIVE SideQty(_, _, _)
SideQty(orders, symbol, side) ==
    IF orders = << >> THEN 0
    ELSE (IF orders[1].side = side /\ orders[1].symbol = symbol THEN orders[1].qty ELSE 0)
         + SideQty(Tail(orders), symbol, side)

\* the balance and the quantity of a symbol that replaying an order list on the
\* seeded account gives
ReplayedBalance(orders) ==
    Num(InitialBalance - SideValue(orders, "BUY") + SideValue(orders, "SELL"))

ReplayedQty(orders, symbol) ==
    HeldQty(CreateAccount, symbol) + SideQty(orders, symbol, "BUY") - SideQty(orders, symbol, "SELL")

\* C20 (as claimed): in the market-aware program every account is the replay of its
\* own order log on the seeded account: the balance is 100000 less the recorded BUYs
\* plus the recorded SELLs, and every symbol is held at the seeded quantity plus the
\* recorded BUYs less the recorded SELLs, with no entry when that is 0.
C20_AccountIsReplay ==
    variant = "market"
    => \A id \in DOMAIN sessions :
         /\ sessions[id].balance = ReplayedBalance(sessions[id].orders)
         /\ \A symbol \in StockSymbols :
               IF ReplayedQty(sessions[id].orders, symbol) = 0
               THEN FindHolding(sessions[id].holdings, symbol) = 0
               ELSE HeldQty(sessions[id], symbol) = ReplayedQty(sessions[id].orders, symbol)

\* C21 (as claimed): in the market-aware program every order on record has side BUY
\* or SELL, and a place-order whose side is missing or anything else is not
\* reported COMPLETE.
C21_OrdersAreTrades ==
    variant = "market"
    => /\ \A id \in DOMAIN sessions :
            \A i \in 1..Len(sessions[id].orders) : sessions[id].orders[i].side \in {"BUY", "SELL"}
       /\ OrderReturned /\ AskedSide \notin {"BUY", "SELL"} => ~OrderComplete

\* get-history came back with the candles of a listed symbol
CandlesReturned == HistoryReturned /\ ToUpperCase(req.params.symbol) \in StockSymbols

\* C22: in the history get-history returns, oldest first, the close of each candle
\* is the open of the next one, and the close of the last candle is the market
\* price of the symbol at the time of the call.
C22_HistoryChains ==
    CandlesReturned
    => LET history == ToolResult.history
       IN  /\ \A k \in 1..(Len(history) - 1) : history[k].close = history[k + 1].open
           /\ Len(history) > 0
              => history[Len(history)].close
                   = marketState.stocks[ToUpperCase(req.params.symbol)].price

\* C22 witness: three candles that all moved, returned after the market ticked
C22_Witness ==
    /\ CandlesReturned
    /\ Len(ToolResult.history) = 3
    /\ \A k \in 1..3 : ToolResult.history[k].open # ToolResult.history[k].close
    /\ marketState.lastUpdate > 0

\* the tools that only report
ReadOnlyTools ==
    { "get-account", "get-holdings", "get-orders", "get-history", "get-quote",
      "get-market-news", "get-market-status" }

\* get-holdings reports every stored holding as stored, with the market price of
\* its symbol and the unrealised P&L at that price
HoldingsAtMarket(account, mkt, reported) ==
    /\ Len(reported) = Len(account.holdings)
    /\ \A i \in 1..Len(reported) :
          /\ reported[i].symbol = account.holdings[i].symbol
          /\ reported[i].qty = account.holdings[i].qty
          /\ reported[i].price = account.holdings[i].price
          /\ reported[i].current_price = Num(mkt.stocks[account.holdings[i].symbol].price)
          /\ reported[i].pnl
               = JsMulInt(account.holdings[i].qty,
                          JsSub(Num(mkt.stocks[account.holdings[i].symbol].price),
                                account.holdings[i].price))

\* C23 (as claimed): the read-only tools of the market-aware program change no
\* session's balance, holdings or orders; all they may do is create the calling
\* session, seeded, and make the market tick that is due; and get-holdings reports
\* for each holding current_price = the market price of its symbol and
\* pnl = (current_price - cost price) x qty, the stored cost price untouched.
C23_ReadToolsAreReadOnly ==
    [][(HandlerStep /\ variant = "market" /\ Dispatched' /\ req'.tool \in ReadOnlyTools)
       => /\ \A id \in DOMAIN sessions : sessions'[id] = sessions[id]
          /\ DOMAIN sessions' = DOMAIN sessions \cup {Target'}
          /\ sessions'[Target'] = AccountOf(Target')
          /\ \/ marketState' = marketState
             \/ /\ now - marketState.lastUpdate > RefreshMs
                /\ OneTick(marketState, marketState')
          /\ (Returned' /\ req'.tool = "get-holdings")
             => HoldingsAtMarket(sessions'[Target'], marketState', ToolResult'.holdings)]_vars

\* an accepted SELL is a straight decrement: the quantity of the symbol falls by
\* qty, what is left keeps its cost price, the other holdings stay and the balance
\* rises by qty x executed price
SellDecrements(before, after, symbol, qty, price) ==
    /\ HeldQty(after, symbol) = HeldQty(before, symbol) - qty
    /\ FindHolding(after.holdings, symbol) # 0
       => after.holdings[FindHolding(after.holdings, symbol)].price
            = before.holdings[FindHolding(before.holdings, symbol)].price
    /\ FilterOut(after.holdings, symbol) = FilterOut(before.holdings, symbol)
    /\ after.balance = JsAdd(before.balance, Num(qty * price))

\* place-order over JSON-RPC for the default session
TripRequest(symbol, qty, side) ==
    RpcRequest("tools/call", "place-order", Order(symbol, qty, side, "", Undefined), "")

Completed(out) == out.res.body.kind = "rpc_result" /\ out.res.body.result.content.status = "COMPLETE"

\* BUY qty of a held symbol now and SELL qty of it in the same refresh window, both
\* accepted, give back the balance and the quantity held
RoundTrip(symbol, qty, rnd) ==
    LET bought == Handler(variant, sessions, marketState, now, TripRequest(symbol, qty, "BUY"), rnd)
        sold == Handler(variant, bought.sessions, bought.market, now,
                        TripRequest(symbol, qty, "SELL"), [rnd EXCEPT !.moves = NoMoves])
    IN  (Completed(bought) /\ Completed(sold))
        => /\ sold.market = bought.market
           /\ sold.sessions[DefaultSession].balance = AccountOf(DefaultSession).balance
           /\ HeldQty(sold.sessions[DefaultSession], symbol)
                = HeldQty(AccountOf(DefaultSession), symbol)

RoundTrips ==
    \A symbol \in {"TCS", "INFY"}, q \in TripQtys, moves \in Refresh(MoveVectors),
       oid \in OrderIds, tieUp \in BOOLEAN :
        FindHolding(AccountOf(DefaultSession).holdings, symbol) # 0
        => RoundTrip(symbol, q, Random(moves, oid, tieUp, 0, NoDraws))

BoughtUnconditionally(before, after, params) ==
    /\ after.balance = JsSub(before.balance, JsMulInt(RawQty(params.qty), params.price))
    /\ IF FindHolding(before.holdings, params.symbol) # 0
       THEN after.holdings
              = [before.holdings EXCEPT
                    ![FindHolding(before.holdings, params.symbol)].qty = @ + RawQty(params.qty)]
       ELSE after.holdings
              = Append(before.holdings, [ symbol |-> params.symbol, qty |-> RawQty(params.qty),
                                          price |-> params.price ])

\* C25: in the simpler program place-order always succeeds and appends a COMPLETE
\* order; a BUY goes through without a funds check (the balance falls by qty x
\* supplied price, below zero if need be, and a holding already there gains qty at
\* its old price), and a SELL changes neither balance nor holdings but is on record.
C25_BasicOrderAlwaysCompletes ==
    [][(HandlerStep /\ variant = "basic" /\ Dispatched' /\ req'.tool = "place-order")
       => /\ Returned'
          /\ ToolResult'.success
          /\ ToolResult'.order.status = "COMPLETE"
          /\ ToolResult'.order.symbol = req'.params.symbol
          /\ ToolResult'.order.type = req'.params.type
          /\ sessions'[Target'].orders = Append(AccountOf(Target').orders, ToolResult'.order)
          /\ IF req'.params.type = "BUY"
             THEN BoughtUnconditionally(AccountOf(Target'), sessions'[Target'], req'.params)
             ELSE /\ sessions'[Target'].balance = AccountOf(Target').balance
                  /\ sessions'[Target'].holdings = AccountOf(Target').holdings]_vars

\* C25 witness: a SELL recorded after a BUY of 5 TCS at 25000 that took the balance
\* to -25000 and the seeded TCS entry to 15 at its price of 3400
C25_Witness ==
    /\ variant = "basic" /\ Returned /\ req.tool = "place-order" /\ req.params.type = "SELL"
    /\ Len(sessions[Target].orders) = 2
    /\ sessions[Target].orders[1].type = "BUY"
    /\ sessions[Target].orders[2].type = "SELL"
    /\ sessions[Target].balance = Num(-2500000)
    /\ sessions[Target].holdings[1] = [symbol |-> "TCS", qty |-> 15, price |-> Num(340000)]

\* C26 (as claimed): in the market-aware program the balance of every session is
\* non-negative in every reachable state, whatever the init and place-order calls
\* (either side, any integer qty, zero and negative included) and the market ticks.
C26_BalanceNonNegative ==
    variant = "market"
    => \A id \in DOMAIN sessions : ~JsLt(sessions[id].balance, Num(0))

\* C27 (as claimed): the market keeps its six instruments and every price stays
\* above 0 whatever the number of refreshes, so an order for a listed symbol
\* executes at a positive market price, never at the caller's price or at 0.
C27_PricesStayPositive ==
    variant = "market"
    => /\ DOMAIN marketState.stocks = StockSymbols
       /\ Cardinality(StockSymbols) = 6
       /\ \A symbol \in StockSymbols : marketState.stocks[symbol].price > 0
       /\ OrderComplete
          => /\ ToolResult.executed_price > 0
             /\ ToolResult.executed_price = marketState.stocks[AskedSymbol].price

====
